---- MODULE Spec2Model ----
(***************************************************************************)
(* Model of src/index.jsx: the registration handler (handleSubmit), the    *)
(* prize decision (determinePrize) and the client views around them, over  *)
(* a shared Firestore order collection and the stats/prize_counts document.*)
(***************************************************************************)
EXTENDS Integers, Sequences, FiniteSets, TLC

(***************************************************************************)
(* Bounds of the model.                                                    *)
(***************************************************************************)
\* Orders the collection may hold before further writes are cut off.
MaxOrders == 2
\* Math.random() is modelled as k / RandScale, k in 0 .. RandScale - 1.
RandScale == 2000
\* Values k >= RandScale handed to the selection loop alone: the "r above
\* every cumulative sum" case (Math.random() itself never returns them).
RandDrift == 2
\* Orders of the inventory scenario (SpecCap).
MaxCapOrders == 6

(***************************************************************************)
(* Constants of the program.                                               *)
(***************************************************************************)
\* limit: -1 marks an unlimited prize.
Unlimited == 0 - 1

\* The probabilities of PRIZES are decimal fractions with three digits:
\* prob holds them in thousandths (0.38 -> 380, 0.001 -> 1).
ProbScale == 1000

\* PRIZES, in canonical (array) order.  name is a display label only.
PRIZES ==
  << [id |-> "none_1",  type |-> "none", prob |-> 380, limit |-> Unlimited],
     [id |-> "none_2",  type |-> "none", prob |-> 380, limit |-> Unlimited],
     [id |-> "ext_1h",  type |-> "win",  prob |-> 100, limit |-> Unlimited],
     [id |-> "disc_50", type |-> "win",  prob |-> 100, limit |-> Unlimited],
     [id |-> "ext_2h",  type |-> "win",  prob |-> 34,  limit |-> 30],
     [id |-> "free_2h", type |-> "win",  prob |-> 5,   limit |-> 15],
     [id |-> "free_4h", type |-> "win",  prob |-> 1,   limit |-> 5] >>

PrizeIds == { PRIZES[i].id : i \in 1..Len(PRIZES) }

PrizeById(id) == PRIZES[CHOOSE i \in 1..Len(PRIZES) : PRIZES[i].id = id]

(***************************************************************************)
(* determinePrize, the weighted selection (lines 449-460).                 *)
(***************************************************************************)
\* A plausible slip of the comparison: strict instead of <=.
RandWithinStrict(r, cumulative) == r * ProbScale < cumulative * RandScale

\* rand <= cumulative, on exact fractions: r / RandScale <= cumulative / ProbScale.
RandWithin(r, cumulative) == r * ProbScale <= cumulative * RandScale

\* A plausible slip of the initial value: the last entry instead of PRIZES[0].
DefaultPrizeLast(table) == table[Len(table)]

\* let selectedPrize = PRIZES[0]: what the loop leaves when no entry matches.
DefaultPrize(table) == table[1]

RECURSIVE SelectLoop(_, _, _, _)
\* for (const p of PRIZES) { cumulative += p.prob; if (rand <= cumulative) {...; break} }
SelectLoop(table, i, cumulative, r) ==
  IF i > Len(table) THEN DefaultPrize(table)
  ELSE LET c == cumulative + table[i].prob
       IN  IF RandWithin(r, c) THEN table[i]
           ELSE SelectLoop(table, i + 1, c, r)

SelectPrize(r) == SelectLoop(PRIZES, 1, 0, r)

(***************************************************************************)
(* determinePrize, the limit check (lines 463-498).                        *)
(***************************************************************************)
\* The stats/prize_counts document as getDoc returns it: exists() and data().
NoStatsDoc == [exists |-> FALSE, data |-> <<>>]

StatsDoc(f) == [exists |-> TRUE, data |-> f]

\* currentCount = 0; if (statsSnap.exists()) currentCount = statsSnap.data()[id] || 0
CurrentCount(snap, id) ==
  IF snap.exists /\ id \in DOMAIN snap.data THEN snap.data[id] ELSE 0

\* PRIZES.find(p => p.id === 'disc_50') || PRIZES[0]
FallbackPrize(table) ==
  IF \E i \in 1..Len(table) : table[i].id = "disc_50"
  THEN table[CHOOSE i \in 1..Len(table) :
               /\ table[i].id = "disc_50"
               /\ \A j \in 1..(i - 1) : table[j].id # "disc_50"]
  ELSE table[1]

\* A plausible slip: > instead of >=.
OutOfStockSlip(count, limit) == count > limit

\* currentCount >= selectedPrize.limit
OutOfStock(count, limit) == count >= limit

\* The value determinePrize returns once getDoc has answered with snap.
AfterRead(selected, snap) ==
  IF OutOfStock(CurrentCount(snap, selected.id), selected.limit)
  THEN FallbackPrize(PRIZES)
  ELSE selected

\* A plausible slip: keeping the selected prize when the read throws.
ReadFailPrizeKeep(selected) == selected

\* catch (e) { return PRIZES[0]; }
ReadFailPrize(selected) == PRIZES[1]

(***************************************************************************)
(* Helpers of handleSubmit.                                                *)
(***************************************************************************)
\* A phone number is the sequence of its characters: 0..9 are the digits
\* '0'..'9', OtherChar is any character that is not a digit.
OtherChar == 10

\* /^09\d{8}$/.test(phone)
PhoneValid(p) ==
  /\ Len(p) = 10
  /\ p[1] = 0
  /\ p[2] = 9
  /\ \A i \in 3..10 : p[i] \in 0..9

RECURSIVE ToDigits(_)
\* Number.prototype.toString() of a positive integer: its decimal digits.
ToDigits(n) == IF n < 10 THEN <<n>> ELSE Append(ToDigits(n \div 10), n % 10)

\* A plausible slip: the offset 100000 left out.
generateSerialNoOffset(k) == ToDigits((k * 900000) \div RandScale)

\* Math.floor(100000 + Math.random() * 900000).toString(), Math.random() = k / RandScale
generateSerial(k) == ToDigits(100000 + ((k * 900000) \div RandScale))

\* null, for a serial (a digit string otherwise)
NoSerial == <<>>

\* A plausible slip: > instead of >=.
GrandEligibleSlip(duration) == duration > 4

\* parseInt(formData.duration) >= 4
GrandEligible(duration) == duration >= 4

\* err.code === 'permission-denied' || ... ? permission message : busy message
SubmitErrorFor(kind) ==
  IF kind = "permission-denied" THEN "permission" ELSE "busy"

\* A plausible slip: the duplicate query filtering on the phone alone.
DuplicateMatchPhoneOnly(o, phone, date) == o.phone = phone

\* where('phone', '==', formData.phone), where('date', '==', formData.date)
DuplicateMatch(o, phone, date) == o.phone = phone /\ o.date = date

\* The documents the duplicate query returns.
DuplicateQuery(os, phone, date) == { o \in os : DuplicateMatch(o, phone, date) }

(***************************************************************************)
(* Inputs.                                                                 *)
(***************************************************************************)
\* The browsers running the page at the same time.
Clients == {"c1", "c2"}

PhoneA == <<0, 9, 1, 2, 3, 4, 5, 6, 7, 8>>
PhoneB == <<0, 9, 8, 7, 6, 5, 4, 3, 2, 1>>
\* wrong prefix, nine digits, a non-digit, empty
InvalidPhones ==
  { <<0, 8, 1, 2, 3, 4, 5, 6, 7, 8>>,
    <<0, 9, 1, 2, 3, 4, 5, 6, 7>>,
    <<0, 9, 1, 2, 3, 4, 5, 6, 7, OtherChar>>,
    <<>> }
DateA == "2025-02-01"
DateB == "2025-02-02"

Form(p, d, h) == [phone |-> p, date |-> d, duration |-> h]

\* The forms a customer submits (formData: phone, date, duration; DURATIONS
\* holds 1,2,3,4,5,6,8,12, and 3 and 4 are the two sides of the threshold):
\* one phone on two dates, two phones on one date, and the invalid phones.
Forms ==
  { Form(PhoneA, DateA, 4), Form(PhoneA, DateB, 3), Form(PhoneB, DateA, 3) }
  \cup { Form(p, DateA, 4) : p \in InvalidPhones }
\* Store failures: err.code of the rejected promise.
FailKinds == {"permission-denied", "unavailable"}
\* Math.random() draws of a registration: the first and the last value of [0,1).
PrizeDraws == {0, RandScale - 1}
SerialDraws == {0}
\* The stats/prize_counts document the store may hold (never written by the page).
StatsDocs == { NoStatsDoc, StatsDoc([x \in {"free_4h"} |-> 5]) }

\* What initFirebase may leave: every Firestore function exposed ("full").
FsModes == {"full"}

NoReq == [phone |-> <<>>, date |-> "", duration |-> 0]

(***************************************************************************)
(* State.                                                                  *)
(***************************************************************************)
VARIABLES
  orders,          \* the orders collection: a set of documents
  nextId,          \* the id the store gives the next document
  stats,           \* the stats/prize_counts document
  fs,              \* per client: "loading" (Firestore not ready), "core"
                   \*   (ready, doc/getDoc not exposed), "full"
  view,            \* per client: useState view
  loading,         \* per client: useState loading
  error,           \* per client: useState error
  scratchResult,   \* per client: useState scratchResult (a prize id, "null")
  grandDrawSerial, \* per client: useState grandDrawSerial
  orderId,         \* per client: useState orderId (0 is null)
  pc,              \* per client: where the running handleSubmit waits
  req,             \* per client: formData captured by the running handleSubmit
  serial,          \* per client: local serial of handleSubmit
  sel,             \* per client: local selectedPrize of determinePrize
  prize,           \* per client: local prize of handleSubmit
  outcome,         \* per client: the last event of handleSubmit: how it ended,
                   \*   "pending" while it runs, "stats_failed" once getDoc threw
  dp,              \* one call of determinePrize on its own (SpecPrize)
  adminTab,        \* per client: useState adminTab
  adminData,       \* per client: useState adminData, the rows of the admin table
  adminLast,       \* per client: how the last admin operation that ended, ended
  calls,           \* the store calls of the admin handlers that are in flight
  card,            \* per client: the mounted ScratchCard (refs, state, canvas)
  timers,          \* per client: pending setTimeout callbacks of checkReveal
  completes,       \* per client: how many times onComplete has been called
  gs               \* one call of generateSerial on its own (SpecSerial)

vars == << orders, nextId, stats, fs, view, loading, error, scratchResult,
           grandDrawSerial, orderId, pc, req, serial, sel, prize, outcome, dp,
           adminTab, adminData, adminLast, calls, card, timers, completes, gs >>

admin == << adminTab, adminData, adminLast, calls >>
scratch == << card, timers, completes >>
rest == << admin, scratch, gs >>

store == << orders, nextId, stats >>
ui == << view, scratchResult, grandDrawSerial, orderId >>
locals == << req, serial, sel, prize >>

\* dp: pc ("off", "start", "read", "done"), rand (the Math.random() draw),
\* docFns (doc and getDoc are exposed), selected (selectedPrize), read
\* ("none", "ok", "threw": how getDoc ended), result (the prize returned).
DpOff == [pc |-> "off", rand |-> 0, docFns |-> TRUE, selected |-> "null",
          read |-> "none", result |-> "null"]

\* gs: pc ("off", "start", "done"), rand (the Math.random() draw), result
\* (the string returned, as its characters).
GsOff == [pc |-> "off", rand |-> 0, result |-> <<>>]

\* adminLast: kind ("none", "login", "fetch", "toggle", "note", "clear",
\* "declined_first", "declined_second": a prompt of clearAllData), id (the
\* document of a toggle or note, 0 otherwise), ok (no alert was shown).
NoAdminOp == [kind |-> "none", id |-> 0, ok |-> TRUE]

\* card: the ScratchCard of the scratch view; mounted is FALSE before the
\* first render of the scratch view and after the component is unmounted.
\* isDrawing (the flag of the effect closure), cleared (canvas samples with
\* alpha < 128), isRevealed (useState), isRevealedRef (useRef, copied from
\* isRevealed by an effect after the render), faded (canvas.style.opacity
\* is '0').
NoCard == [mounted |-> FALSE, isDrawing |-> FALSE, cleared |-> 0,
           isRevealed |-> FALSE, isRevealedRef |-> FALSE, faded |-> FALSE]

\* The page as mounted in every browser (user is set by the mount effect).
PageInit ==
  /\ fs = [c \in Clients |-> "loading"]
  /\ view = [c \in Clients |-> "home"]
  /\ loading = [c \in Clients |-> FALSE]
  /\ error = [c \in Clients |-> ""]
  /\ scratchResult = [c \in Clients |-> "null"]
  /\ grandDrawSerial = [c \in Clients |-> NoSerial]
  /\ orderId = [c \in Clients |-> 0]
  /\ pc = [c \in Clients |-> "idle"]
  /\ req = [c \in Clients |-> NoReq]
  /\ serial = [c \in Clients |-> NoSerial]
  /\ sel = [c \in Clients |-> "null"]
  /\ prize = [c \in Clients |-> "null"]
  /\ outcome = [c \in Clients |-> "none"]
  /\ adminTab = [c \in Clients |-> "grand"]
  /\ adminData = [c \in Clients |-> <<>>]
  /\ adminLast = [c \in Clients |-> NoAdminOp]
  /\ calls = {}
  /\ card = [c \in Clients |-> NoCard]
  /\ timers = [c \in Clients |-> 0]
  /\ completes = [c \in Clients |-> 0]

\* An empty orders collection; docs are the stats documents the store may hold.
InitWith(docs) ==
  /\ orders = {}
  /\ nextId = 1
  /\ stats \in docs
  /\ PageInit

Init == InitWith(StatsDocs) /\ dp = DpOff /\ gs = GsOff

(***************************************************************************)
(* Firestore becoming ready in one browser (initFirebase).                 *)
(***************************************************************************)
InitFirebase(c, modes) ==
  /\ fs[c] = "loading"
  /\ \E f \in modes : fs' = [fs EXCEPT ![c] = f]
  /\ UNCHANGED << store, ui, loading, error, pc, locals, outcome, dp, rest >>

(***************************************************************************)
(* handleSubmit, from the click to the first await or return.              *)
(***************************************************************************)
\* The submit button is rendered in the home view and disabled while loading.
\* pc follows one running handleSubmit per browser: a submit while one is
\* running (which the button allows once loading is false again) is left out.
CanSubmit(c) == view[c] = "home" /\ ~loading[c] /\ pc[c] = "idle"

\* Lines 356-365: the phone fails the pattern.
SubmitInvalid(c, forms) ==
  /\ CanSubmit(c)
  /\ \E f \in forms : ~PhoneValid(f.phone)
  /\ error' = [error EXCEPT ![c] = "invalid_phone"]
  /\ loading' = [loading EXCEPT ![c] = FALSE]
  /\ outcome' = [outcome EXCEPT ![c] = "invalid"]
  /\ UNCHANGED << store, fs, ui, pc, locals, dp, rest >>

\* Lines 356-381: the Firestore functions or db are not there yet.
SubmitNotReady(c, forms) ==
  /\ CanSubmit(c)
  /\ \E f \in forms : PhoneValid(f.phone)
  /\ fs[c] = "loading"
  /\ error' = [error EXCEPT ![c] = "not_ready"]
  /\ loading' = [loading EXCEPT ![c] = FALSE]
  /\ outcome' = [outcome EXCEPT ![c] = "not_ready"]
  /\ UNCHANGED << store, fs, ui, pc, locals, dp, rest >>

\* Lines 356-389: the duplicate query is issued.
SubmitQuery(c, forms) ==
  /\ CanSubmit(c)
  /\ fs[c] # "loading"
  /\ \E f \in forms :
       /\ PhoneValid(f.phone)
       /\ req' = [req EXCEPT ![c] = f]
  /\ error' = [error EXCEPT ![c] = ""]
  /\ loading' = [loading EXCEPT ![c] = TRUE]
  /\ pc' = [pc EXCEPT ![c] = "check"]
  /\ outcome' = [outcome EXCEPT ![c] = "pending"]
  /\ UNCHANGED << store, fs, ui, serial, sel, prize, dp, rest >>

\* catch / finally of handleSubmit (lines 429-440).
Abort(c, kind, how) ==
  /\ error' = [error EXCEPT ![c] = SubmitErrorFor(kind)]
  /\ loading' = [loading EXCEPT ![c] = FALSE]
  /\ pc' = [pc EXCEPT ![c] = "idle"]
  /\ req' = [req EXCEPT ![c] = NoReq]
  /\ serial' = [serial EXCEPT ![c] = NoSerial]
  /\ sel' = [sel EXCEPT ![c] = "null"]
  /\ prize' = [prize EXCEPT ![c] = "null"]
  /\ outcome' = [outcome EXCEPT ![c] = how]
  /\ UNCHANGED << store, fs, ui, dp, rest >>

(***************************************************************************)
(* handleSubmit, after getDocs answers.                                    *)
(***************************************************************************)
\* Line 389 throws.
CheckFail(c) ==
  /\ pc[c] = "check"
  /\ \E k \in FailKinds : Abort(c, k, "check_failed")

\* A plausible slip: the duplicate branch without its return, so the handler
\* shows the message and goes on to the write.
CheckDuplicateNoReturn(c) ==
  /\ pc[c] = "check"
  /\ DuplicateQuery(orders, req[c].phone, req[c].date) # {}
  /\ error' = [error EXCEPT ![c] = "duplicate"]
  /\ loading' = [loading EXCEPT ![c] = FALSE]
  /\ pc' = [pc EXCEPT ![c] = "write"]
  /\ sel' = [sel EXCEPT ![c] = PRIZES[1].id]
  /\ prize' = [prize EXCEPT ![c] = PRIZES[1].id]
  /\ UNCHANGED << store, fs, ui, req, serial, outcome, dp, rest >>

\* Lines 391-395: the snapshot is not empty.
CheckDuplicate(c) ==
  /\ pc[c] = "check"
  /\ DuplicateQuery(orders, req[c].phone, req[c].date) # {}
  /\ error' = [error EXCEPT ![c] = "duplicate"]
  /\ loading' = [loading EXCEPT ![c] = FALSE]
  /\ pc' = [pc EXCEPT ![c] = "idle"]
  /\ req' = [req EXCEPT ![c] = NoReq]
  /\ outcome' = [outcome EXCEPT ![c] = "duplicate"]
  /\ UNCHANGED << store, fs, ui, serial, sel, prize, dp, rest >>

\* Lines 397-402 and 449-476: the snapshot is empty; the serial is drawn, the
\* prize is selected, and determinePrize either returns at once (unlimited
\* prize, or doc/getDoc missing) or awaits getDoc.
CheckPass(c, prizeDraws, serialDraws) ==
  /\ pc[c] = "check"
  /\ DuplicateQuery(orders, req[c].phone, req[c].date) = {}
  /\ \E r \in prizeDraws, u \in serialDraws :
       LET selected == SelectPrize(r)
           direct == selected.limit = Unlimited \/ fs[c] # "full"
       IN  /\ serial' = [serial EXCEPT ![c] =
                IF GrandEligible(req[c].duration) THEN generateSerial(u) ELSE NoSerial]
           /\ sel' = [sel EXCEPT ![c] = selected.id]
           /\ prize' = [prize EXCEPT ![c] = IF direct THEN selected.id ELSE "null"]
           /\ pc' = [pc EXCEPT ![c] = IF direct THEN "write" ELSE "stats"]
  /\ UNCHANGED << store, fs, ui, loading, error, req, outcome, dp, rest >>

(***************************************************************************)
(* determinePrize, after getDoc answers; handleSubmit then issues addDoc.  *)
(***************************************************************************)
\* Lines 476-492, 498.
StatsRead(c) ==
  /\ pc[c] = "stats"
  /\ prize' = [prize EXCEPT ![c] = AfterRead(PrizeById(sel[c]), stats).id]
  /\ pc' = [pc EXCEPT ![c] = "write"]
  /\ UNCHANGED << store, fs, ui, loading, error, req, serial, sel, outcome, dp, rest >>

\* Lines 476, 493-496: getDoc throws.
StatsFail(c) ==
  /\ pc[c] = "stats"
  /\ prize' = [prize EXCEPT ![c] = ReadFailPrize(PrizeById(sel[c])).id]
  /\ pc' = [pc EXCEPT ![c] = "write"]
  /\ outcome' = [outcome EXCEPT ![c] = "stats_failed"]
  /\ UNCHANGED << store, fs, ui, loading, error, req, serial, sel, dp, rest >>

(***************************************************************************)
(* handleSubmit, after addDoc answers.                                     *)
(***************************************************************************)
\* Server time is counted in ticks, SubSecond of them to a second.
SubSecond == 2

\* serverTimestamp(): the store stamps the n-th document it accepts at tick
\* n - 1, so that consecutive documents may share a second or not.  A
\* Timestamp holds whole seconds and the rest (nanoseconds), here in ticks.
ServerTimestamp(n) ==
  [seconds |-> (n - 1) \div SubSecond, nanoseconds |-> (n - 1) % SubSecond]

\* A document written without a note field (row.note is undefined).
NoNote == [present |-> FALSE, text |-> <<>>]

\* The document addDoc writes (lines 412-422); branch, room, userId and the
\* prize name are carried along unread and left out.  No note is written.
OrderDoc(id, f, ser, pz) ==
  [ id |-> id,
    phone |-> f.phone,
    date |-> f.date,
    duration |-> f.duration,
    isGrandEligible |-> GrandEligible(f.duration),
    grandDrawSerial |-> ser,
    scratchPrizeId |-> pz,
    scratchPrizeType |-> PrizeById(pz).type,
    prizeSent |-> FALSE,
    timestamp |-> ServerTimestamp(id),
    note |-> NoNote ]

\* The document of the registration running in browser c.
NewOrder(c, id) == OrderDoc(id, req[c], serial[c], prize[c])

\* Lines 412-427, 439.
WriteOk(c, maxOrders) ==
  /\ pc[c] = "write"
  /\ nextId <= maxOrders
  /\ orders' = orders \cup {NewOrder(c, nextId)}
  /\ nextId' = nextId + 1
  /\ orderId' = [orderId EXCEPT ![c] = nextId]
  /\ grandDrawSerial' = [grandDrawSerial EXCEPT ![c] = serial[c]]
  /\ scratchResult' = [scratchResult EXCEPT ![c] = prize[c]]
  /\ view' = [view EXCEPT ![c] = "scratch"]
  /\ loading' = [loading EXCEPT ![c] = FALSE]
  /\ pc' = [pc EXCEPT ![c] = "idle"]
  /\ req' = [req EXCEPT ![c] = NoReq]
  /\ serial' = [serial EXCEPT ![c] = NoSerial]
  /\ sel' = [sel EXCEPT ![c] = "null"]
  /\ prize' = [prize EXCEPT ![c] = "null"]
  /\ outcome' = [outcome EXCEPT ![c] = "ok"]
  /\ UNCHANGED << stats, fs, error, dp, rest >>

\* A plausible slip: the failure surfacing after the document was stored.
WriteFailAfterStore(c) ==
  /\ pc[c] = "write"
  /\ orders' = orders \cup {[ id |-> nextId,
                               phone |-> req[c].phone,
                               date |-> req[c].date,
                               duration |-> req[c].duration,
                               isGrandEligible |-> req[c].duration >= 4,
                               grandDrawSerial |-> serial[c],
                               scratchPrizeId |-> prize[c],
                               scratchPrizeType |-> "none",
                               prizeSent |-> FALSE,
                               timestamp |-> [seconds |-> 0, nanoseconds |-> 0],
                               note |-> [present |-> FALSE, text |-> <<>>] ]}
  /\ nextId' = nextId + 1
  /\ error' = [error EXCEPT ![c] = "busy"]
  /\ loading' = [loading EXCEPT ![c] = FALSE]
  /\ pc' = [pc EXCEPT ![c] = "idle"]
  /\ req' = [req EXCEPT ![c] = [phone |-> <<>>, date |-> "", duration |-> 0]]
  /\ serial' = [serial EXCEPT ![c] = <<>>]
  /\ sel' = [sel EXCEPT ![c] = "null"]
  /\ prize' = [prize EXCEPT ![c] = "null"]
  /\ outcome' = [outcome EXCEPT ![c] = "write_failed"]
  /\ UNCHANGED << stats, fs, ui, dp, rest >>

\* Line 412 throws.
WriteFail(c) ==
  /\ pc[c] = "write"
  /\ \E k \in FailKinds : Abort(c, k, "write_failed")

(***************************************************************************)
(* The views around the registration.                                      *)
(***************************************************************************)
\* Line 802: the admin trigger of the home view.
AdminTrigger(c) ==
  /\ view[c] = "home"
  /\ view' = [view EXCEPT ![c] = "adminLogin"]
  /\ UNCHANGED << store, fs, scratchResult, grandDrawSerial, orderId,
                  loading, error, pc, locals, outcome, dp, rest >>

\* Line 893: cancel of the admin login.
LoginCancel(c) ==
  /\ view[c] = "adminLogin"
  /\ view' = [view EXCEPT ![c] = "home"]
  /\ UNCHANGED << store, fs, scratchResult, grandDrawSerial, orderId,
                  loading, error, pc, locals, outcome, dp, rest >>

\* Line 812: onComplete of the scratch card.
ScratchComplete(c) ==
  /\ view[c] = "scratch"
  /\ view' = [view EXCEPT ![c] = "result"]
  /\ UNCHANGED << store, fs, scratchResult, grandDrawSerial, orderId,
                  loading, error, pc, locals, outcome, dp, rest >>

\* Lines 860-864: back to the home view from the result view.
ResultHome(c) ==
  /\ view[c] = "result"
  /\ view' = [view EXCEPT ![c] = "home"]
  /\ UNCHANGED << store, fs, scratchResult, grandDrawSerial, orderId,
                  loading, error, pc, locals, outcome, dp, rest >>

(***************************************************************************)
(* The program: any number of browsers on one store.                       *)
(***************************************************************************)
Next ==
  \E c \in Clients :
    \/ InitFirebase(c, FsModes)
    \/ SubmitInvalid(c, Forms)
    \/ SubmitNotReady(c, Forms)
    \/ SubmitQuery(c, Forms)
    \/ CheckFail(c)
    \/ CheckDuplicate(c)
    \/ CheckPass(c, PrizeDraws, SerialDraws)
    \/ StatsRead(c)
    \/ StatsFail(c)
    \/ WriteOk(c, MaxOrders)
    \/ WriteFail(c)
    \/ AdminTrigger(c)
    \/ LoginCancel(c)
    \/ ScratchComplete(c)
    \/ ResultHome(c)

Spec == Init /\ [][Next]_vars

(***************************************************************************)
(* determinePrize on its own: one call, for every draw and every           *)
(* stats/prize_counts document of PrizeStatsDocs.                          *)
(***************************************************************************)
LimitedIds == { PRIZES[i].id : i \in { j \in 1..Len(PRIZES) : PRIZES[j].limit # Unlimited } }

\* No document, an empty document, and for each limited prize a document
\* holding a count of 0, limit - 1, limit or limit + 1 for it alone.
PrizeStatsDocs ==
  { NoStatsDoc, StatsDoc(<<>>) }
  \cup { StatsDoc([x \in {id} |-> n]) :
           id \in LimitedIds,
           n \in {0} }
  \cup UNION { { StatsDoc([x \in {id} |-> PrizeById(id).limit + k]) : k \in {0 - 1, 0, 1} } :
               id \in LimitedIds }

InitPrize ==
  /\ InitWith(PrizeStatsDocs)
  /\ \E r \in 0..(RandScale - 1 + RandDrift), b \in BOOLEAN :
       dp = [DpOff EXCEPT !.pc = "start", !.rand = r, !.docFns = b]
  /\ gs = GsOff

client == << fs, view, loading, error, scratchResult, grandDrawSerial, orderId,
             pc, req, serial, sel, prize, outcome >>

\* Lines 449-472, 498: the selection, and the returns that need no read.
DpSelect ==
  /\ dp.pc = "start"
  /\ LET selected == SelectPrize(dp.rand)
         direct == selected.limit = Unlimited \/ ~dp.docFns
     IN  dp' = [dp EXCEPT !.selected = selected.id,
                          !.result = IF direct THEN selected.id ELSE "null",
                          !.pc = IF direct THEN "done" ELSE "read"]
  /\ UNCHANGED << store, client, rest >>

\* Lines 476-492, 498: getDoc answers.
DpRead ==
  /\ dp.pc = "read"
  /\ dp' = [dp EXCEPT !.read = "ok",
                      !.result = AfterRead(PrizeById(dp.selected), stats).id,
                      !.pc = "done"]
  /\ UNCHANGED << store, client, rest >>

\* Lines 476, 493-496: getDoc throws.
DpReadFail ==
  /\ dp.pc = "read"
  /\ dp' = [dp EXCEPT !.read = "threw",
                      !.result = ReadFailPrize(PrizeById(dp.selected)).id,
                      !.pc = "done"]
  /\ UNCHANGED << store, client, rest >>

NextPrize == DpSelect \/ DpRead \/ DpReadFail

SpecPrize == InitPrize /\ [][NextPrize]_vars

(***************************************************************************)
(* The inventory scenario: one browser registers six different (phone,     *)
(* date) pairs, every draw selecting free_4h, with no store failure.       *)
(***************************************************************************)
DateC == "2025-02-03"

CapForms == { Form(p, d, 3) : p \in {PhoneA, PhoneB}, d \in {DateA, DateB, DateC} }

InitCap ==
  /\ InitWith({ NoStatsDoc, StatsDoc([x \in {"free_4h"} |-> 4]) })
  /\ dp = DpOff
  /\ gs = GsOff

NextCap ==
  \E c \in {"c1"} :
    \/ InitFirebase(c, FsModes)
    \/ SubmitQuery(c, CapForms)
    \/ CheckDuplicate(c)
    \/ CheckPass(c, {RandScale - 1}, SerialDraws)
    \/ StatsRead(c)
    \/ WriteOk(c, MaxCapOrders)
    \/ ScratchComplete(c)
    \/ ResultHome(c)

SpecCap == InitCap /\ [][NextCap]_vars

(***************************************************************************)
(* The admin handlers: fetchAdminData, togglePrizeSent, updateNote.        *)
(***************************************************************************)
\* Store calls that may be in flight at the same time.
MaxCalls == 2

\* A store call in flight: client (the browser that issued it), kind
\* ("fetch", "toggle", "note", "clear"), stage ("sent": not yet served,
\* "read": the snapshot of getDocs is taken, "failed": clearAllData has
\* given up while deletes it issued are still on their way), tab (the
\* argument of fetchAdminData), id, flag, text (the document and the value
\* of an updateDoc), snap (the documents getDocs read, in snapshot order),
\* todo (the documents whose deleteDoc has not been served).
Call(c, kind, tab, id, flag, text) ==
  [client |-> c, kind |-> kind, stage |-> "sent", tab |-> tab, id |-> id,
   flag |-> flag, text |-> text, snap |-> <<>>, todo |-> {}]

CanCall == Cardinality(calls) < MaxCalls

\* snap.docs: the documents of a collection come in the order of their ids,
\* and the ids addDoc generates are random, so any order of the documents
\* may be the snapshot's.
SnapshotsOf(os) ==
  { q \in [1..Cardinality(os) -> os] :
      \A i, j \in 1..Cardinality(os) : q[i] = q[j] => i = j }

\* Lines 537-541: d.isGrandEligible === true, or d.scratchPrizeType === 'win'.
TabFilter(d, tab) ==
  IF tab = "grand" THEN d.isGrandEligible = TRUE ELSE d.scratchPrizeType = "win"

\* a.timestamp?.seconds || 0
SortKey(d) == d.timestamp.seconds

RECURSIVE InsertNewest(_, _)
\* x put behind every element that the comparator timeB - timeA does not
\* place after it (Array.prototype.sort is stable).
InsertNewest(x, q) ==
  IF Len(q) = 0 THEN <<x>>
  ELSE IF SortKey(x) > SortKey(q[1]) THEN <<x>> \o q
       ELSE <<q[1]>> \o InsertNewest(x, Tail(q))

RECURSIVE SortNewest(_)
\* Lines 544-548: data.sort((a, b) => timeB - timeA).
SortNewest(q) ==
  IF Len(q) = 0 THEN <<>>
  ELSE InsertNewest(q[Len(q)], SortNewest(SubSeq(q, 1, Len(q) - 1)))

\* Lines 534-548: the rows a fetch of tab makes of a snapshot.
AdminRows(snap, tab) == SortNewest(SelectSeq(snap, LAMBDA d : TabFilter(d, tab)))

\* Lines 513-533: fetchAdminData up to its await or its early return.
FetchBegin(c, tab) ==
  /\ adminTab' = [adminTab EXCEPT ![c] = tab]
  /\ adminData' = [adminData EXCEPT ![c] = <<>>]
  /\ IF fs[c] = "loading"
     THEN /\ loading' = [loading EXCEPT ![c] = FALSE]
          /\ adminLast' = [adminLast EXCEPT ![c] = [kind |-> "fetch", id |-> 0, ok |-> FALSE]]
          /\ UNCHANGED calls
     ELSE /\ loading' = [loading EXCEPT ![c] = TRUE]
          /\ calls' = calls \cup {Call(c, "fetch", tab, 0, FALSE, <<>>)}
          /\ UNCHANGED adminLast

\* Lines 502-506: handleAdminLogin with the right password.
AdminLoginOk(c) ==
  /\ view[c] = "adminLogin"
  /\ CanCall
  /\ view' = [view EXCEPT ![c] = "admin"]
  /\ FetchBegin(c, "grand")
  /\ UNCHANGED << store, fs, scratchResult, grandDrawSerial, orderId, error,
                  pc, locals, outcome, dp, scratch, gs >>

\* Lines 502-509: handleAdminLogin with a wrong password (an alert).
AdminLoginWrong(c) ==
  /\ view[c] = "adminLogin"
  /\ adminLast' = [adminLast EXCEPT ![c] = [kind |-> "login", id |-> 0, ok |-> FALSE]]
  /\ UNCHANGED << store, fs, ui, loading, error, pc, locals, outcome, dp,
                  adminTab, adminData, calls, scratch, gs >>

\* Line 908: the exit button of the admin view.
AdminExit(c) ==
  /\ view[c] = "admin"
  /\ view' = [view EXCEPT ![c] = "home"]
  /\ UNCHANGED << store, fs, scratchResult, grandDrawSerial, orderId,
                  loading, error, pc, locals, outcome, dp, rest >>

\* Lines 916, 922: a tab button of the admin view.
FetchTab(c, tab) ==
  /\ view[c] = "admin"
  /\ CanCall
  /\ FetchBegin(c, tab)
  /\ UNCHANGED << store, fs, ui, error, pc, locals, outcome, dp, scratch, gs >>

\* The store serves the getDocs of a fetch.
FetchRead(k) ==
  /\ k \in calls /\ k.kind = "fetch" /\ k.stage = "sent"
  /\ \E q \in SnapshotsOf(orders) :
       calls' = (calls \ {k}) \cup {[k EXCEPT !.stage = "read", !.snap = q]}
  /\ UNCHANGED << store, client, dp, adminTab, adminData, adminLast, scratch, gs >>

\* Lines 533-550, 565: getDocs answers.
FetchDone(k) ==
  /\ k \in calls /\ k.kind = "fetch" /\ k.stage = "read"
  /\ adminData' = [adminData EXCEPT ![k.client] = AdminRows(k.snap, k.tab)]
  /\ loading' = [loading EXCEPT ![k.client] = FALSE]
  /\ adminLast' = [adminLast EXCEPT ![k.client] = [kind |-> "fetch", id |-> 0, ok |-> TRUE]]
  /\ calls' = calls \ {k}
  /\ UNCHANGED << store, fs, ui, error, pc, locals, outcome, dp, adminTab,
                  scratch, gs >>

\* A plausible slip: the catch branch without its setLoading(false), where
\* the return of the permission branch skips the one after the try.
FetchFailKeepsLoading(k) ==
  /\ k \in calls /\ k.kind = "fetch"
  /\ adminLast' = [adminLast EXCEPT ![k.client] = [kind |-> "fetch", id |-> 0, ok |-> FALSE]]
  /\ calls' = calls \ {k}
  /\ UNCHANGED << store, client, dp, adminTab, adminData, scratch, gs >>

\* Lines 551-565: getDocs rejects.
FetchFail(k) ==
  /\ k \in calls /\ k.kind = "fetch"
  /\ loading' = [loading EXCEPT ![k.client] = FALSE]
  /\ adminLast' = [adminLast EXCEPT ![k.client] = [kind |-> "fetch", id |-> 0, ok |-> FALSE]]
  /\ calls' = calls \ {k}
  /\ UNCHANGED << store, fs, ui, error, pc, locals, outcome, dp, adminTab,
                  adminData, scratch, gs >>

\* The rows are rendered in the admin view when loading is false.
RowsShown(c) == view[c] = "admin" /\ ~loading[c]

\* A plausible slip: the new value taken from the stored document.
ToggledValueOfStore(os, id, currentStatus) ==
  ~(CHOOSE o \in os : o.id = id).prizeSent

\* prizeSent: !currentStatus (lines 580, 584)
ToggledValue(os, id, currentStatus) == ~currentStatus

\* Lines 568-581 and 980: the status button of a row of the instant tab;
\* flag holds currentStatus.
ToggleClick(c, i) ==
  /\ RowsShown(c) /\ adminTab[c] = "instant"
  /\ i \in 1..Len(adminData[c])
  /\ fs[c] # "loading"
  /\ CanCall
  /\ calls' = calls \cup
       {Call(c, "toggle", adminTab[c], adminData[c][i].id, adminData[c][i].prizeSent, <<>>)}
  /\ UNCHANGED << store, client, dp, adminTab, adminData, adminLast, scratch, gs >>

\* A plausible slip: the document replaced (setDoc) instead of updated, so
\* that every field the call does not name is lost.
SetPrizeSentReplace(os, id, v) ==
  { IF o.id = id
    THEN [o EXCEPT !.prizeSent = v, !.grandDrawSerial = NoSerial,
                   !.isGrandEligible = FALSE, !.scratchPrizeId = "null",
                   !.scratchPrizeType = "null", !.note = NoNote]
    ELSE o : o \in os }

\* updateDoc(ref, {prizeSent: v}): one field of one document.
SetPrizeSent(os, id, v) ==
  { IF o.id = id THEN [o EXCEPT !.prizeSent = v] ELSE o : o \in os }

\* prev.map(item => item.id === docId ? {...item, prizeSent: v} : item)
MapPrizeSent(rows, id, v) ==
  [i \in 1..Len(rows) |->
     IF rows[i].id = id THEN [rows[i] EXCEPT !.prizeSent = v] ELSE rows[i]]

\* Lines 579-585: updateDoc answers (the document exists).
ToggleOk(k) ==
  /\ k \in calls /\ k.kind = "toggle"
  /\ \E o \in orders : o.id = k.id
  /\ LET v == ToggledValue(orders, k.id, k.flag)
     IN  /\ orders' = SetPrizeSent(orders, k.id, v)
         /\ adminData' = [adminData EXCEPT ![k.client] = MapPrizeSent(@, k.id, v)]
  /\ adminLast' = [adminLast EXCEPT ![k.client] = [kind |-> "toggle", id |-> k.id, ok |-> TRUE]]
  /\ calls' = calls \ {k}
  /\ UNCHANGED << nextId, stats, client, dp, adminTab, scratch, gs >>

\* A plausible slip: the local rows updated before the write is awaited and
\* not put back when it fails.
ToggleFailOptimistic(k) ==
  /\ k \in calls /\ k.kind = "toggle"
  /\ adminData' = [adminData EXCEPT ![k.client] = MapPrizeSent(@, k.id, ~k.flag)]
  /\ adminLast' = [adminLast EXCEPT ![k.client] = [kind |-> "toggle", id |-> k.id, ok |-> FALSE]]
  /\ calls' = calls \ {k}
  /\ UNCHANGED << store, client, dp, adminTab, scratch, gs >>

\* Lines 586-593: updateDoc rejects (always, when the document is gone).
ToggleFail(k) ==
  /\ k \in calls /\ k.kind = "toggle"
  /\ adminLast' = [adminLast EXCEPT ![k.client] = [kind |-> "toggle", id |-> k.id, ok |-> FALSE]]
  /\ calls' = calls \ {k}
  /\ UNCHANGED << store, client, dp, adminTab, adminData, scratch, gs >>

\* A note is the sequence of its characters; Blank is a white-space one.
Blank == " "

RECURSIVE TrimStart(_)
TrimStart(t) == IF Len(t) > 0 /\ t[1] = Blank THEN TrimStart(Tail(t)) ELSE t

RECURSIVE TrimEnd(_)
TrimEnd(t) ==
  IF Len(t) > 0 /\ t[Len(t)] = Blank THEN TrimEnd(SubSeq(t, 1, Len(t) - 1)) ELSE t

\* String.prototype.trim() (line 79: onSave(editValue.trim()))
Trim(t) == TrimEnd(TrimStart(t))

\* What the admin may have typed into the note editor of a row.
NoteInputs == { <<>>, <<Blank, "V", Blank>> }

\* note: newNote || '' (lines 608, 613)
NoteField(newNote) == [present |-> TRUE, text |-> newNote]

\* Lines 78-80, 596-609 and 995: save of the note editor of a row.
NoteSave(c, i, inputs) ==
  /\ RowsShown(c)
  /\ i \in 1..Len(adminData[c])
  /\ fs[c] # "loading"
  /\ CanCall
  /\ \E t \in inputs :
       calls' = calls \cup {Call(c, "note", adminTab[c], adminData[c][i].id, FALSE, Trim(t))}
  /\ UNCHANGED << store, client, dp, adminTab, adminData, adminLast, scratch, gs >>

\* A plausible slip: the note kept in the local rows only, the store left
\* as it is.
SetNoteSkip(os, id, v) == os

\* A plausible slip: the update replacing the document's other admin field.
SetNoteResetSent(os, id, v) ==
  { IF o.id = id THEN [o EXCEPT !.note = v, !.prizeSent = FALSE] ELSE o : o \in os }

\* updateDoc(ref, {note: v}): one field of one document.
SetNote(os, id, v) ==
  { IF o.id = id THEN [o EXCEPT !.note = v] ELSE o : o \in os }

\* prev.map(item => item.id === docId ? {...item, note: v} : item)
MapNote(rows, id, v) ==
  [i \in 1..Len(rows) |->
     IF rows[i].id = id THEN [rows[i] EXCEPT !.note = v] ELSE rows[i]]

\* Lines 607-614: updateDoc answers (the document exists).
NoteOk(k) ==
  /\ k \in calls /\ k.kind = "note"
  /\ \E o \in orders : o.id = k.id
  /\ orders' = SetNote(orders, k.id, NoteField(k.text))
  /\ adminData' = [adminData EXCEPT ![k.client] = MapNote(@, k.id, NoteField(k.text))]
  /\ adminLast' = [adminLast EXCEPT ![k.client] = [kind |-> "note", id |-> k.id, ok |-> TRUE]]
  /\ calls' = calls \ {k}
  /\ UNCHANGED << nextId, stats, client, dp, adminTab, scratch, gs >>

\* Lines 615-622: updateDoc rejects (always, when the document is gone).
NoteFail(k) ==
  /\ k \in calls /\ k.kind = "note"
  /\ adminLast' = [adminLast EXCEPT ![k.client] = [kind |-> "note", id |-> k.id, ok |-> FALSE]]
  /\ calls' = calls \ {k}
  /\ UNCHANGED << store, client, dp, adminTab, adminData, scratch, gs >>

(***************************************************************************)
(* The admin handler clearAllData.                                         *)
(***************************************************************************)
\* A plausible slip: the answer to the second prompt not looked at, so that
\* the handler goes on after it was declined.
ClearDeclineIgnored(c) ==
  /\ view[c] = "admin"
  /\ fs[c] # "loading"
  /\ CanCall
  /\ adminLast' = [adminLast EXCEPT ![c] = [kind |-> "declined_second", id |-> 0, ok |-> TRUE]]
  /\ loading' = [loading EXCEPT ![c] = TRUE]
  /\ calls' = calls \cup {[client |-> c, kind |-> "clear", stage |-> "sent",
                            tab |-> adminTab[c], id |-> 0, flag |-> FALSE,
                            text |-> <<>>, snap |-> <<>>, todo |-> {}]}
  /\ UNCHANGED << store, fs, ui, error, pc, locals, outcome, dp, adminTab,
                  adminData, scratch, gs >>

\* Lines 626-636: the first confirm() prompt is declined, or the first is
\* accepted and the second declined; the handler returns.
ClearDecline(c) ==
  /\ view[c] = "admin"
  /\ \E which \in {"declined_first", "declined_second"} :
       adminLast' = [adminLast EXCEPT ![c] = [kind |-> which, id |-> 0, ok |-> TRUE]]
  /\ UNCHANGED << store, client, dp, adminTab, adminData, calls, scratch, gs >>

\* Lines 626-655: both prompts are accepted; getDocs is issued, or the
\* handler returns because Firestore is not ready.
ClearStart(c) ==
  /\ view[c] = "admin"
  /\ CanCall
  /\ IF fs[c] = "loading"
     THEN /\ loading' = [loading EXCEPT ![c] = FALSE]
          /\ adminLast' = [adminLast EXCEPT ![c] = [kind |-> "clear", id |-> 0, ok |-> FALSE]]
          /\ UNCHANGED calls
     ELSE /\ loading' = [loading EXCEPT ![c] = TRUE]
          /\ calls' = calls \cup {Call(c, "clear", adminTab[c], 0, FALSE, <<>>)}
          /\ UNCHANGED adminLast
  /\ UNCHANGED << store, fs, ui, error, pc, locals, outcome, dp, adminTab,
                  adminData, scratch, gs >>

\* Lines 655-660: getDocs answers and a deleteDoc is issued for every
\* document of the snapshot.
ClearRead(k) ==
  /\ k \in calls /\ k.kind = "clear" /\ k.stage = "sent"
  /\ \E q \in SnapshotsOf(orders) :
       calls' = (calls \ {k}) \cup
         {[k EXCEPT !.stage = "read", !.snap = q,
                    !.todo = { q[i].id : i \in 1..Len(q) }]}
  /\ UNCHANGED << store, client, dp, adminTab, adminData, adminLast, scratch, gs >>

\* The store serves one deleteDoc (also after clearAllData has given up).
ClearDelete(k, id) ==
  /\ k \in calls /\ k.kind = "clear" /\ k.stage \in {"read", "failed"}
  /\ id \in k.todo
  /\ orders' = { o \in orders : o.id # id }
  /\ calls' = (calls \ {k}) \cup
       (IF k.stage = "failed" /\ k.todo = {id} THEN {}
        ELSE {[k EXCEPT !.todo = k.todo \ {id}]})
  /\ UNCHANGED << nextId, stats, client, dp, adminTab, adminData, adminLast,
                  scratch, gs >>

\* A plausible slip: the deletes issued but not awaited, so that success is
\* reported while documents are still there.
ClearDoneEarly(k) ==
  /\ k \in calls /\ k.kind = "clear" /\ k.stage = "read"
  /\ adminData' = [adminData EXCEPT ![k.client] = <<>>]
  /\ loading' = [loading EXCEPT ![k.client] = FALSE]
  /\ adminLast' = [adminLast EXCEPT ![k.client] = [kind |-> "clear", id |-> 0, ok |-> TRUE]]
  /\ calls' = calls \ {k}
  /\ UNCHANGED << store, fs, ui, error, pc, locals, outcome, dp, adminTab,
                  scratch, gs >>

\* Lines 662-667, 676-678: every deleteDoc has answered.
ClearDone(k) ==
  /\ k \in calls /\ k.kind = "clear" /\ k.stage = "read" /\ k.todo = {}
  /\ adminData' = [adminData EXCEPT ![k.client] = <<>>]
  /\ loading' = [loading EXCEPT ![k.client] = FALSE]
  /\ adminLast' = [adminLast EXCEPT ![k.client] = [kind |-> "clear", id |-> 0, ok |-> TRUE]]
  /\ calls' = calls \ {k}
  /\ UNCHANGED << store, fs, ui, error, pc, locals, outcome, dp, adminTab,
                  scratch, gs >>

\* Lines 669-678: getDocs rejects, or a deleteDoc rejects: Promise.all
\* rejects at once, while the other deletes stay on their way.
ClearFail(k) ==
  /\ k \in calls /\ k.kind = "clear"
  /\ \/ /\ k.stage = "sent"
        /\ calls' = calls \ {k}
     \/ /\ k.stage = "read"
        /\ \E id \in k.todo :
             calls' = (calls \ {k}) \cup
               (IF k.todo = {id} THEN {}
                ELSE {[k EXCEPT !.stage = "failed", !.todo = k.todo \ {id}]})
  /\ loading' = [loading EXCEPT ![k.client] = FALSE]
  /\ adminLast' = [adminLast EXCEPT ![k.client] = [kind |-> "clear", id |-> 0, ok |-> FALSE]]
  /\ UNCHANGED << store, fs, ui, error, pc, locals, outcome, dp, adminTab,
                  adminData, scratch, gs >>

\* A deleteDoc rejects after clearAllData has given up: nobody is told.
ClearDeleteLost(k, id) ==
  /\ k \in calls /\ k.kind = "clear" /\ k.stage = "failed"
  /\ id \in k.todo
  /\ calls' = (calls \ {k}) \cup
       (IF k.todo = {id} THEN {} ELSE {[k EXCEPT !.todo = k.todo \ {id}]})
  /\ UNCHANGED << store, client, dp, adminTab, adminData, adminLast, scratch, gs >>

(***************************************************************************)
(* The listing scenario: browser c1 registers customers while browser c2   *)
(* is the admin's and fetches both tabs.                                   *)
(***************************************************************************)
\* Orders of the admin scenarios.
MaxAdminOrders == 2

\* A draw of (0.76, 0.86]: ext_1h, a win without limit.
WinDraw == (4 * RandScale) \div 5

AdminForms == { Form(PhoneA, DateA, 4), Form(PhoneA, DateB, 3), Form(PhoneB, DateA, 3) }

AdminPrizeDraws == {0, WinDraw}

Tabs == {"grand", "instant"}

\* The registrations of browser c.
Customer(c, forms, prizeDraws) ==
  \/ SubmitQuery(c, forms)
  \/ CheckDuplicate(c)
  \/ CheckPass(c, prizeDraws, SerialDraws)
  \/ WriteOk(c, MaxAdminOrders)
  \/ ScratchComplete(c)
  \/ ResultHome(c)

\* The admin's way into and out of the admin view in browser c.
AdminSession(c) ==
  \/ AdminTrigger(c)
  \/ AdminLoginOk(c)
  \/ AdminLoginWrong(c)
  \/ AdminExit(c)

\* The store calls of fetchAdminData being served.
FetchServed ==
  \E k \in calls : FetchRead(k) \/ FetchDone(k) \/ FetchFail(k)

\* The store calls of togglePrizeSent and updateNote being served.
EditServed ==
  \E k \in calls : ToggleOk(k) \/ ToggleFail(k) \/ NoteOk(k) \/ NoteFail(k)

NextList ==
  \/ \E c \in Clients : InitFirebase(c, FsModes)
  \/ Customer("c1", AdminForms, AdminPrizeDraws)
  \/ AdminSession("c2")
  \/ \E t \in Tabs : FetchTab("c2", t)
  \/ FetchServed

SpecList == InitWith({NoStatsDoc}) /\ dp = DpOff /\ gs = GsOff /\ [][NextList]_vars

(***************************************************************************)
(* The edit scenario: the admin's browser c2 on a store that holds two     *)
(* orders (a store the listing scenario reaches): one that both tabs list  *)
(* and one that no tab lists.                                              *)
(***************************************************************************)
EditOrders ==
  { OrderDoc(1, Form(PhoneA, DateA, 4), generateSerial(0), "ext_1h"),
    OrderDoc(2, Form(PhoneB, DateA, 3), NoSerial, "none_1") }

InitEdit ==
  /\ orders = EditOrders
  /\ nextId = 3
  /\ stats = NoStatsDoc
  /\ PageInit
  /\ dp = DpOff
  /\ gs = GsOff

NextEdit ==
  \/ InitFirebase("c2", FsModes)
  \/ AdminSession("c2")
  \/ \E t \in Tabs : FetchTab("c2", t)
  \/ FetchServed
  \/ \E i \in 1..MaxAdminOrders : ToggleClick("c2", i)
  \/ \E i \in 1..MaxAdminOrders : NoteSave("c2", i, NoteInputs)
  \/ EditServed

SpecEdit == InitEdit /\ [][NextEdit]_vars

(***************************************************************************)
(* The two-admin scenario: two browsers, each with an admin session, list  *)
(* the instant tab of the store of the edit scenario and redeem.           *)
(***************************************************************************)
NextAdmins ==
  \/ \E c \in Clients :
       \/ InitFirebase(c, FsModes)
       \/ AdminTrigger(c)
       \/ AdminLoginOk(c)
       \/ FetchTab(c, "instant")
       \/ \E i \in 1..MaxAdminOrders : ToggleClick(c, i)
  \/ (\E k \in calls : FetchRead(k) \/ FetchDone(k))
  \/ (\E k \in calls : ToggleOk(k) \/ ToggleFail(k))

SpecAdmins == InitEdit /\ [][NextAdmins]_vars

(***************************************************************************)
(* The wipe scenario: browser c1 registers customers while the admin's     *)
(* browser c2 lists the grand tab and clears all data; the stats document  *)
(* may hold a count.                                                       *)
(***************************************************************************)
\* The store calls of clearAllData being served.
ClearServed ==
  \E k \in calls :
    \/ ClearRead(k)
    \/ ClearDone(k)
    \/ ClearFail(k)
    \/ \E id \in 1..MaxAdminOrders : ClearDelete(k, id) \/ ClearDeleteLost(k, id)

ClearForms == { Form(PhoneA, DateA, 4), Form(PhoneB, DateA, 3) }

NextClear ==
  \/ \E c \in Clients : InitFirebase(c, FsModes)
  \/ Customer("c1", ClearForms, {0})
  \/ AdminSession("c2")
  \/ (\E k \in calls : FetchRead(k) \/ FetchDone(k))
  \/ ClearDecline("c2")
  \/ ClearStart("c2")
  \/ ClearServed

SpecClear == Init /\ [][NextClear]_vars

(***************************************************************************)
(* The quiet wipe: as the wipe scenario, but the admin starts clearAllData *)
(* only while no registration is running, and no customer submits while a  *)
(* clearAllData is running.                                                *)
(***************************************************************************)
\* No handleSubmit is between its start and its end in any browser.
NoRegistration == \A c \in Clients : pc[c] = "idle"

\* No clearAllData is between its start and its end (its catch or finally).
NoClearRunning == ~\E k \in calls : k.kind = "clear" /\ k.stage \in {"sent", "read"}

NextWipe ==
  \/ \E c \in Clients : InitFirebase(c, FsModes)
  \/ (NoClearRunning /\ SubmitQuery("c1", ClearForms))
  \/ CheckDuplicate("c1")
  \/ CheckPass("c1", {0}, SerialDraws)
  \/ WriteOk("c1", MaxAdminOrders)
  \/ ScratchComplete("c1")
  \/ ResultHome("c1")
  \/ AdminSession("c2")
  \/ (\E k \in calls : FetchRead(k) \/ FetchDone(k))
  \/ ClearDecline("c2")
  \/ (NoRegistration /\ ClearStart("c2"))
  \/ ClearServed

SpecWipe == InitWith({NoStatsDoc}) /\ dp = DpOff /\ gs = GsOff /\ [][NextWipe]_vars

(***************************************************************************)
(* The store scenario: every operation that touches the orders collection. *)
(* The store holds one order; browser c1 registers a customer while the    *)
(* admin's browser c2 lists, redeems, annotates and clears all data.       *)
(***************************************************************************)
\* The order the store holds at the start: one that both tabs list.
StoreOrders == { OrderDoc(1, Form(PhoneA, DateA, 4), generateSerial(0), "ext_1h") }

InitStore ==
  /\ orders = StoreOrders
  /\ nextId = 2
  /\ stats = NoStatsDoc
  /\ PageInit
  /\ dp = DpOff
  /\ gs = GsOff

\* A form that is new to the store and one the store holds already.
StoreForms == { Form(PhoneA, DateB, 3), Form(PhoneA, DateA, 4) }

\* The admin presses a tab button when no store call is in flight, and the
\* clear button when no fetch and no clearAllData is.
NextStore ==
  \/ \E c \in Clients : InitFirebase(c, FsModes)
  \/ SubmitQuery("c1", StoreForms)
  \/ CheckDuplicate("c1")
  \/ CheckPass("c1", {WinDraw}, SerialDraws)
  \/ WriteOk("c1", MaxAdminOrders)
  \/ AdminTrigger("c2")
  \/ AdminLoginOk("c2")
  \/ (calls = {} /\ FetchTab("c2", "instant"))
  \/ (\E k \in calls : FetchRead(k) \/ FetchDone(k))
  \/ (\E i \in 1..MaxAdminOrders : ToggleClick("c2", i))
  \/ (\E i \in 1..MaxAdminOrders : NoteSave("c2", i, {<<"V">>}))
  \/ EditServed
  \/ ClearDecline("c2")
  \/ ((\A k \in calls : k.kind \in {"toggle", "note"}) /\ ClearStart("c2"))
  \/ ClearServed

SpecStore == InitStore /\ [][NextStore]_vars

(***************************************************************************)
(* The busy browser: one browser on a store that holds one order is used   *)
(* for registrations and, at the same time, by the admin, with every way   *)
(* a store call may end; the admin starts an operation when the store      *)
(* calls of the one before have been served.                               *)
(***************************************************************************)
\* A store call of a handler of browser c is waiting for the store.
Awaiting(c, kind) ==
  \E k \in calls : k.client = c /\ k.kind = kind /\ k.stage \in {"sent", "read"}

\* A form that is new to the store and a phone that is invalid.
BusyForms ==
  { Form(PhoneA, DateB, 3), Form(<<0, 9, 1, 2, 3, 4, 5, 6, 7>>, DateA, 4) }

\* The store answers the call on which handleSubmit of browser c waits.
SubmitServed(c) ==
  \/ CheckFail(c)
  \/ CheckDuplicate(c)
  \/ CheckPass(c, {WinDraw}, SerialDraws)
  \/ WriteOk(c, MaxAdminOrders)
  \/ WriteFail(c)

NextBusy ==
  \E c \in {"c1"} :
    \/ InitFirebase(c, FsModes)
    \/ SubmitInvalid(c, BusyForms)
    \/ SubmitNotReady(c, BusyForms)
    \/ SubmitQuery(c, BusyForms)
    \/ SubmitServed(c)
    \/ ScratchComplete(c)
    \/ ResultHome(c)
    \/ AdminTrigger(c)
    \/ (calls = {} /\ AdminLoginOk(c))
    \/ (calls = {} /\ FetchTab(c, "instant"))
    \/ FetchServed
    \/ (calls = {} /\ \E i \in 1..MaxAdminOrders : ToggleClick(c, i))
    \/ (calls = {} /\ \E i \in 1..MaxAdminOrders : NoteSave(c, i, {<<"V">>}))
    \/ EditServed
    \/ (calls = {} /\ ClearStart(c))
    \/ ClearServed

\* Every store call returns or fails: the store goes on serving the call of
\* each handler for as long as one is waiting.
BusyFairness ==
  /\ WF_vars(SubmitServed("c1"))
  /\ WF_vars(FetchServed)
  /\ WF_vars(EditServed)
  /\ WF_vars(ClearServed)

SpecBusy == InitStore /\ [][NextBusy]_vars /\ BusyFairness

(***************************************************************************)
(* The scratch card (ScratchCard, lines 1017-1146).                        *)
(***************************************************************************)
\* Samples of the canvas that checkReveal counts (width * height pixels).
ScratchSamples == 8
\* Samples one stroke of the eraser may clear.
MaxStroke == 2
\* setTimeout callbacks one card may schedule.
MaxTimers == 3

\* A plausible slip: >= instead of >.
OverThresholdSlip(cleared) == cleared * 100 >= 75 * ScratchSamples

\* percent > 75, percent = (transparent / (pixels.length / 4)) * 100
OverThreshold(cleared) == cleared * 100 > 75 * ScratchSamples

\* Lines 1020-1076: the first render of the scratch view and its effects
\* (initCanvas: the canvas is filled, no sample is cleared).
CardMount(c) ==
  /\ view[c] = "scratch"
  /\ ~card[c].mounted
  /\ card' = [card EXCEPT ![c] = [NoCard EXCEPT !.mounted = TRUE]]
  /\ UNCHANGED << store, client, dp, admin, timers, completes, gs >>

\* Lines 1102-1117: checkReveal, k being the card as the listener that
\* calls it has left it.
CheckReveal(c, k) ==
  IF OverThreshold(k.cleared)
  THEN /\ timers[c] + completes[c] < MaxTimers
       /\ card' = [card EXCEPT ![c] = [k EXCEPT !.isRevealed = TRUE, !.faded = TRUE]]
       /\ timers' = [timers EXCEPT ![c] = @ + 1]
  ELSE /\ card' = [card EXCEPT ![c] = k]
       /\ UNCHANGED timers

\* Line 1119: mousedown / touchstart.
StartDraw(c) ==
  /\ card[c].mounted
  /\ ~card[c].isDrawing
  /\ card' = [card EXCEPT ![c].isDrawing = TRUE]
  /\ UNCHANGED << store, client, dp, admin, timers, completes, gs >>

\* Lines 1121-1128: mousemove / touchmove while pressed and the ref not yet
\* revealed; the stroke clears up to MaxStroke further samples.
Draw(c) ==
  /\ card[c].mounted
  /\ card[c].isDrawing /\ ~card[c].isRevealedRef
  /\ \E n \in 0..MaxStroke :
       /\ card[c].cleared + n <= ScratchSamples
       /\ CheckReveal(c, [card[c] EXCEPT !.cleared = @ + n])
  /\ UNCHANGED << store, client, dp, admin, completes, gs >>

\* Line 1120: mouseup / touchend.
EndDraw(c) ==
  /\ card[c].mounted
  /\ CheckReveal(c, [card[c] EXCEPT !.isDrawing = FALSE])
  /\ UNCHANGED << store, client, dp, admin, completes, gs >>

\* Lines 1045-1074: the ResizeObserver runs initCanvas again; setting
\* canvas.width empties the canvas and fillRect covers it anew.
Resize(c) ==
  /\ card[c].mounted
  /\ card[c].cleared # 0
  /\ card' = [card EXCEPT ![c].cleared = 0]
  /\ UNCHANGED << store, client, dp, admin, timers, completes, gs >>

\* Lines 1028-1030: the effect that copies isRevealed into the ref, run
\* after the render that setIsRevealed caused.
RefSync(c) ==
  /\ card[c].mounted
  /\ card[c].isRevealedRef # card[c].isRevealed
  /\ card' = [card EXCEPT ![c].isRevealedRef = card[c].isRevealed]
  /\ UNCHANGED << store, client, dp, admin, timers, completes, gs >>

\* Lines 1115 and 812: a timer of checkReveal expires and calls onComplete,
\* which sets the view to result; a card that is mounted is unmounted by
\* the render that follows and its state is gone (the timers it scheduled
\* are not cleared).
TimerFire(c) ==
  /\ timers[c] > 0
  /\ timers' = [timers EXCEPT ![c] = @ - 1]
  /\ completes' = [completes EXCEPT ![c] = @ + 1]
  /\ view' = [view EXCEPT ![c] = "result"]
  /\ card' = [card EXCEPT ![c] = NoCard]
  /\ UNCHANGED << store, fs, scratchResult, grandDrawSerial, orderId, loading,
                  error, pc, locals, outcome, dp, admin, gs >>

\* The gestures and steps of the card of browser c.
CardStep(c) ==
  \/ CardMount(c)
  \/ StartDraw(c)
  \/ Draw(c)
  \/ EndDraw(c)
  \/ Resize(c)
  \/ RefSync(c)
  \/ TimerFire(c)

(***************************************************************************)
(* The scratch scenario: one browser registers once and scratches its card.*)
(***************************************************************************)
ScratchForms == { Form(PhoneA, DateA, 4) }

NextScratch ==
  \E c \in {"c1"} :
    \/ InitFirebase(c, FsModes)
    \/ SubmitQuery(c, ScratchForms)
    \/ CheckDuplicate(c)
    \/ CheckPass(c, {WinDraw}, SerialDraws)
    \/ WriteOk(c, MaxOrders)
    \/ CardStep(c)
    \/ ResultHome(c)

SpecScratch == InitWith({NoStatsDoc}) /\ dp = DpOff /\ gs = GsOff /\ [][NextScratch]_vars

(***************************************************************************)
(* The two-card scenario: one browser registers two customers, one after   *)
(* the other, and each scratches a card; the admin trigger of the home     *)
(* view may be pressed at any time.                                        *)
(***************************************************************************)
CardForms == { Form(PhoneA, DateA, 4), Form(PhoneB, DateA, 3) }

NextCards ==
  \E c \in {"c1"} :
    \/ InitFirebase(c, FsModes)
    \/ SubmitQuery(c, CardForms)
    \/ CheckDuplicate(c)
    \/ CheckPass(c, {WinDraw}, SerialDraws)
    \/ WriteOk(c, MaxOrders)
    \/ WriteFail(c)
    \/ CardStep(c)
    \/ ResultHome(c)
    \/ AdminTrigger(c)
    \/ LoginCancel(c)

SpecCards == InitWith({NoStatsDoc}) /\ dp = DpOff /\ gs = GsOff /\ [][NextCards]_vars

(***************************************************************************)
(* The life of an order: one browser registers once, scratches the card,   *)
(* and is then used by the admin, who lists, redeems and annotates.        *)
(***************************************************************************)
NextLife ==
  \E c \in {"c1"} :
    \/ InitFirebase(c, FsModes)
    \/ SubmitQuery(c, ScratchForms)
    \/ CheckDuplicate(c)
    \/ CheckPass(c, {WinDraw}, SerialDraws)
    \/ WriteOk(c, MaxAdminOrders)
    \/ CardStep(c)
    \/ ResultHome(c)
    \/ AdminTrigger(c)
    \/ AdminLoginOk(c)
    \/ AdminExit(c)
    \/ FetchTab(c, "instant")
    \/ (\E k \in calls : FetchRead(k) \/ FetchDone(k))
    \/ (\E i \in 1..MaxAdminOrders : ToggleClick(c, i))
    \/ (\E i \in 1..MaxAdminOrders : NoteSave(c, i, NoteInputs))
    \/ (\E k \in calls : ToggleOk(k) \/ NoteOk(k))

SpecLife == InitWith({NoStatsDoc}) /\ dp = DpOff /\ gs = GsOff /\ [][NextLife]_vars

(***************************************************************************)
(* The grand-draw scenario: one browser registers two phones, with every   *)
(* duration the form offers and both ends of the serial draw.              *)
(***************************************************************************)
\* DURATIONS (lines 238-247): the val of every option of the duration select.
DURATIONS == {1, 2, 3, 4, 5, 6, 8, 12}

GrandForms == { Form(p, DateA, h) : p \in {PhoneA, PhoneB}, h \in DURATIONS }

GrandSerialDraws == {0, RandScale - 1}

NextGrand ==
  \E c \in {"c1"} :
    \/ InitFirebase(c, FsModes)
    \/ SubmitQuery(c, GrandForms)
    \/ CheckDuplicate(c)
    \/ CheckPass(c, {0}, GrandSerialDraws)
    \/ WriteOk(c, MaxOrders)
    \/ WriteFail(c)
    \/ ScratchComplete(c)
    \/ ResultHome(c)

SpecGrand == Init /\ [][NextGrand]_vars

(***************************************************************************)
(* generateSerial on its own: one call, for every draw of [0,1).           *)
(***************************************************************************)
InitSerial ==
  /\ InitWith({NoStatsDoc})
  /\ dp = DpOff
  /\ \E k \in 0..(RandScale - 1) : gs = [GsOff EXCEPT !.pc = "start", !.rand = k]

\* Lines 260-262.
GsCall ==
  /\ gs.pc = "start"
  /\ gs' = [gs EXCEPT !.result = generateSerial(gs.rand), !.pc = "done"]
  /\ UNCHANGED << store, client, dp, admin, scratch >>

NextSerial == GsCall

SpecSerial == InitSerial /\ [][NextSerial]_vars

(***************************************************************************)
(* Properties.                                                             *)
(***************************************************************************)
SameKey(o, phone, date) == o.phone = phone /\ o.date = date

\* C1: in every reachable state the orders collection holds at most one
\* Order for any (phone, date) pair, also when registrations interleave.
C1_OneOrderPerPhoneDate ==
  \A o1, o2 \in orders : SameKey(o1, o2.phone, o2.date) => o1.id = o2.id

\* C2: when getDocs answers a registration, it is rejected as a duplicate if
\* and only if the collection holds an Order with exactly its phone and its
\* date (the same phone on another date, or another phone on the same date,
\* does not count); a registration that is not rejected goes on, and the
\* Order it ends by writing carries its phone and date.
C2_DuplicateIffExactMatch ==
  [][ \A c \in Clients :
        LET same == \E o \in orders : SameKey(o, req[c].phone, req[c].date)
            answered == pc[c] = "check" /\ pc'[c] # "check"
                          /\ outcome'[c] # "check_failed"
        IN  /\ (error'[c] = "duplicate" /\ error[c] # "duplicate")
                 => (pc[c] = "check" /\ same)
            /\ (answered /\ same)
                 => (error'[c] = "duplicate" /\ pc'[c] = "idle" /\ orders' = orders)
            /\ (answered /\ ~same)
                 => (error'[c] = "" /\ pc'[c] \in {"stats", "write"})
            /\ (pc[c] = "write" /\ outcome'[c] = "ok")
                 => \E o \in orders' \ orders : SameKey(o, req[c].phone, req[c].date)
    ]_vars

\* C2 witness: PhoneA is registered on both dates, and a further
\* registration has been rejected as a duplicate.
C2_Witness ==
  /\ \E o \in orders : SameKey(o, PhoneA, DateA)
  /\ \E o \in orders : SameKey(o, PhoneA, DateB)
  /\ \E c \in Clients : error[c] = "duplicate" /\ outcome[c] = "duplicate"

Awarded(id) == { o \in orders : o.scratchPrizeId = id }

\* C3: for every prize with a finite limit, the number of persisted Orders
\* whose assigned prize is that prize never exceeds the limit.
C3_InventoryCap ==
  \A i \in 1..Len(PRIZES) :
    PRIZES[i].limit # Unlimited => Cardinality(Awarded(PRIZES[i].id)) <= PRIZES[i].limit

RECURSIVE CumProb(_)
\* The sum of the probabilities of the first i prizes, in thousandths.
CumProb(i) == IF i = 0 THEN 0 ELSE CumProb(i - 1) + PRIZES[i].prob

\* r / RandScale compared with CumProb(i) / ProbScale, as exact fractions.
AtMostCum(r, i) == r * ProbScale <= CumProb(i) * RandScale
BelowCum(r, i) == r * ProbScale < CumProb(i) * RandScale
EqualsCum(r, i) == r * ProbScale = CumProb(i) * RandScale

\* The draw comes from Math.random(): a value of [0,1).
DrawInRange == dp.rand < RandScale

\* C4: for every r in [0,1) the selector returns the first prize, in table
\* order, whose running cumulative probability is >= r, and such a prize
\* exists, so the default is never used.
C4_FirstCumulativeAtLeastR ==
  (dp.pc # "start" /\ DrawInRange) =>
    \E i \in 1..Len(PRIZES) :
      /\ AtMostCum(dp.rand, i)
      /\ \A j \in 1..(i - 1) : ~AtMostCum(dp.rand, j)
      /\ dp.selected = PRIZES[i].id

\* C4 witness: the last value of [0,1) has been drawn and the last entry of
\* the table matched it.
C4_Witness ==
  /\ dp.pc = "done"
  /\ dp.rand = RandScale - 1
  /\ dp.selected = PRIZES[Len(PRIZES)].id

\* C5 as stated: the selector returns the prize whose half-open interval
\* [sum of the earlier probabilities, sum including this prize) contains r,
\* so r equal to the sum at the end of a prize selects the next prize.
C5_HalfOpenInterval ==
  (dp.pc # "start" /\ DrawInRange) =>
    \E i \in 1..Len(PRIZES) :
      /\ ~BelowCum(dp.rand, i - 1)
      /\ BelowCum(dp.rand, i)
      /\ dp.selected = PRIZES[i].id

\* C5 as amended: the selector returns the prize whose interval (sum of the
\* earlier probabilities, sum including this prize] contains r, with r = 0
\* in the first interval; r equal to the sum at the end of a prize selects
\* that prize, not the next one.
C5_ClosedRightInterval ==
  (dp.pc # "start" /\ DrawInRange) =>
    /\ \E i \in 1..Len(PRIZES) :
         /\ ~AtMostCum(dp.rand, i - 1) \/ (i = 1 /\ dp.rand = 0)
         /\ AtMostCum(dp.rand, i)
         /\ dp.selected = PRIZES[i].id
    /\ \A i \in 1..Len(PRIZES) :
         EqualsCum(dp.rand, i) => dp.selected = PRIZES[i].id

\* C5 witness: r = 0.38, the sum at the end of none_1, selected none_1.
C5_Witness ==
  /\ dp.pc = "done"
  /\ EqualsCum(dp.rand, 1)
  /\ dp.selected = "none_1"

AboveEverySum(r) == ~AtMostCum(r, Len(PRIZES))

CountOf(id) == IF stats.exists /\ id \in DOMAIN stats.data THEN stats.data[id] ELSE 0

TableWithout(id) == SelectSeq(PRIZES, LAMBDA p : p.id # id)

GetDocThrew(c) == pc[c] = "stats" /\ outcome'[c] = "stats_failed"

Rejected(c) ==
  /\ error'[c] \in {"invalid_phone", "duplicate"}
  /\ error'[c] # error[c]

\* C9: a registration that ends with an invalid-phone or a duplicate-entry
\* rejection writes nothing: the rejecting step leaves the orders and the
\* stats document as they are, does not move the view (home, for the
\* synchronous invalid-phone rejection; never scratch), and keeps the
\* client's orderId, scratch prize and serial; the registration is over,
\* and the only step that ever writes an Order is the one ending a
\* registration successfully.
C9_RejectionWritesNothing ==
  [][ /\ \A c \in Clients :
           Rejected(c) =>
             /\ orders' = orders /\ nextId' = nextId /\ stats' = stats
             /\ view'[c] = view[c] /\ view'[c] # "scratch"
             /\ error'[c] = "invalid_phone" => view'[c] = "home"
             /\ orderId'[c] = orderId[c]
             /\ scratchResult'[c] = scratchResult[c]
             /\ grandDrawSerial'[c] = grandDrawSerial[c]
             /\ pc'[c] = "idle" /\ ~loading'[c]
             /\ outcome'[c] \in {"invalid", "duplicate"}
      /\ orders' # orders =>
           \E c \in Clients : pc[c] = "write" /\ outcome'[c] = "ok" /\ error'[c] = ""
      /\ stats' = stats ]_vars

\* C9 witness: a client holding an earlier order, prize and serial has been
\* rejected as a duplicate, and another one for an invalid phone.
C9_Witness ==
  /\ \E c \in Clients :
       /\ outcome[c] = "duplicate"
       /\ orderId[c] # 0
       /\ grandDrawSerial[c] # NoSerial
       /\ view[c] = "home"
  /\ \E c \in Clients : outcome[c] = "invalid" /\ error[c] = "invalid_phone"

AddDocFailed(c) == pc[c] = "write" /\ outcome'[c] = "write_failed"

\* C10: when addDoc fails, no Order is added, an error is shown, the view
\* does not advance to scratch, and the client's orderId, scratch prize and
\* serial keep their values; the failed attempt leaves nothing that a later
\* duplicate check could find: a registration is rejected as a duplicate
\* only when a persisted Order matches it.
C10_WriteFailureLeavesNothing ==
  [][ \A c \in Clients :
        /\ AddDocFailed(c) =>
             /\ orders' = orders /\ nextId' = nextId
             /\ error'[c] \in {"permission", "busy"}
             /\ view'[c] = view[c]
             /\ orderId'[c] = orderId[c]
             /\ scratchResult'[c] = scratchResult[c]
             /\ grandDrawSerial'[c] = grandDrawSerial[c]
             /\ pc'[c] = "idle" /\ ~loading'[c]
             /\ \A o \in orders' : o.id < nextId
        /\ (outcome'[c] = "duplicate" /\ outcome[c] = "pending") =>
             \E o \in orders : SameKey(o, req[c].phone, req[c].date)
        /\ (pc[c] = "check" /\ pc'[c] \in {"stats", "write"}) =>
             ~ \E o \in orders : SameKey(o, req[c].phone, req[c].date) ]_vars

\* C10 witness: a client that holds an earlier order has had an addDoc fail
\* and is back on the home view, free to submit again.
C10_Witness ==
  \E c \in Clients :
    /\ outcome[c] = "write_failed"
    /\ error[c] \in {"permission", "busy"}
    /\ orderId[c] # 0
    /\ view[c] = "home"
    /\ ~loading[c]

IsSerial(x) ==
  /\ Len(x) = 6
  /\ x[1] \in 1..9
  /\ \A i \in 2..6 : x[i] \in 0..9

\* C11: every persisted Order has isGrandEligible = (duration >= 4), and
\* its grandDrawSerial is present (not null) if and only if isGrandEligible
\* is true, a present serial being six digits; duration 3 gives an
\* ineligible Order without serial, duration 4 an eligible one with a
\* serial.  The duration of every Order is one of 1, 2, 3, 4, 5, 6, 8, 12.
C11_SerialIffEligible ==
  \A o \in orders :
    /\ o.duration \in {1, 2, 3, 4, 5, 6, 8, 12}
    /\ o.isGrandEligible = (o.duration >= 4)
    /\ (o.grandDrawSerial # NoSerial) = o.isGrandEligible
    /\ o.isGrandEligible => IsSerial(o.grandDrawSerial)
    /\ o.duration = 3 => (~o.isGrandEligible /\ o.grandDrawSerial = NoSerial)
    /\ o.duration = 4 => (o.isGrandEligible /\ IsSerial(o.grandDrawSerial))

\* C11 witness: the collection holds an Order of 3 hours without serial and
\* an Order of 4 hours with one.
C11_Witness ==
  /\ \E o \in orders : o.duration = 3 /\ o.grandDrawSerial = NoSerial
  /\ \E o \in orders : o.duration = 4 /\ o.grandDrawSerial # NoSerial

RECURSIVE DigitsValue(_)
\* The integer a string of decimal digits denotes.
DigitsValue(x) ==
  IF Len(x) = 0 THEN 0
  ELSE 10 * DigitsValue(SubSeq(x, 1, Len(x) - 1)) + x[Len(x)]

\* C12: every serial generateSerial produces, for any random value of
\* [0,1), denotes an integer of the closed range [100000, 999999]: exactly
\* six decimal digits, the first not zero; the random value 0 gives 100000
\* and the largest random value stays below 1000000.
C12_SerialInRange ==
  gs.pc = "done" =>
    /\ Len(gs.result) = 6
    /\ \A i \in 1..Len(gs.result) : gs.result[i] \in 0..9
    /\ gs.result[1] # 0
    /\ DigitsValue(gs.result) >= 100000
    /\ DigitsValue(gs.result) <= 999999
    /\ gs.rand = 0 => gs.result = <<1, 0, 0, 0, 0, 0>>

\* C12 witness: the largest random value has been drawn and the serial
\* produced starts with the digit 9.
C12_Witness ==
  /\ gs.pc = "done"
  /\ gs.rand = RandScale - 1
  /\ gs.result[1] = 9

\* The fields of an Order that record the decision taken at its creation.
Decision(o) ==
  << o.scratchPrizeId, o.scratchPrizeType, o.isGrandEligible, o.grandDrawSerial >>

\* C13: once an Order is created, its prize id and kind, its isGrandEligible
\* flag and its grandDrawSerial are changed by no later step (scratching,
\* reveal, redeem toggle, note update, admin listing), and whenever a
\* browser shows the scratch or the result view, the prize and the serial
\* it shows are those stored on the Order whose id it holds.
C13_DecisionNeverChanges ==
  [][ /\ \A o \in orders : \A n \in orders' : n.id = o.id => Decision(n) = Decision(o)
      /\ \A c \in Clients :
           view'[c] \in {"scratch", "result"} =>
             \E o \in orders' :
               /\ o.id = orderId'[c]
               /\ o.scratchPrizeId = scratchResult'[c]
               /\ o.grandDrawSerial = grandDrawSerial'[c]
    ]_vars

\* C13 witness: the card has been scratched and has notified its owner, and
\* the Order has since been redeemed, annotated and listed by the admin.
C13_Witness ==
  \E c \in Clients :
    /\ completes[c] >= 1
    /\ view[c] = "admin"
    /\ adminLast[c] = [kind |-> "fetch", id |-> 0, ok |-> TRUE]
    /\ \E i \in 1..Len(adminData[c]) :
         /\ adminData[c][i].id = orderId[c]
         /\ adminData[c][i].prizeSent
         /\ adminData[c][i].note.present

\* C14: on one scratch card, whatever the pointer events, the owner is
\* notified (onComplete is called) at most once, and a card that is
\* revealed schedules no further notification: a pointer event after the
\* reveal produces no further transition and no further notification.
C14_NotifiedOnce ==
  \A c \in Clients : completes[c] + timers[c] <= 1

Revealing(c) == ~card[c].isRevealed /\ card'[c].isRevealed

\* A check of the cleared fraction: a movement while pressed, or a release.
CheckStep(c) ==
  /\ card[c].mounted /\ card'[c].mounted
  /\ \/ card[c].isDrawing /\ card'[c].isDrawing
     \/ ~card'[c].isDrawing

ToggleDone(k) ==
  /\ k \in calls /\ k \notin calls' /\ k.kind = "toggle"
  /\ adminLast'[k.client] = [kind |-> "toggle", id |-> k.id, ok |-> TRUE]

\* The step serves the updateDoc k of an updateNote, which succeeds.
NoteDone(k) ==
  /\ k \in calls /\ k \notin calls' /\ k.kind = "note"
  /\ adminLast'[k.client] = [kind |-> "note", id |-> k.id, ok |-> TRUE]

StoredOrder(os, id) == CHOOSE o \in os : o.id = id

\* C16: a successful togglePrizeSent(id, status) leaves the stored flag and
\* the flag of the local row at the negation of status, whatever they were
\* before, and a successful updateNote(id, text) leaves the stored note and
\* the note of the local row at text; performing the same mutation once
\* more on the resulting state changes neither the store nor the local
\* list.
C16_RepeatChangesNothing ==
  [][ \A k \in calls :
        /\ ToggleDone(k) =>
             /\ StoredOrder(orders', k.id).prizeSent = ~k.flag
             /\ \A i \in 1..Len(adminData'[k.client]) :
                  adminData'[k.client][i].id = k.id
                    => adminData'[k.client][i].prizeSent = ~k.flag
             /\ SetPrizeSent(orders', k.id, ToggledValue(orders', k.id, k.flag)) = orders'
             /\ MapPrizeSent(adminData'[k.client], k.id,
                             ToggledValue(orders', k.id, k.flag)) = adminData'[k.client]
             /\ (StoredOrder(orders, k.id).prizeSent = ~k.flag) => orders' = orders
        /\ NoteDone(k) =>
             /\ StoredOrder(orders', k.id).note = [present |-> TRUE, text |-> k.text]
             /\ \A i \in 1..Len(adminData'[k.client]) :
                  adminData'[k.client][i].id = k.id
                    => adminData'[k.client][i].note = [present |-> TRUE, text |-> k.text]
             /\ SetNote(orders', k.id, NoteField(k.text)) = orders'
             /\ MapNote(adminData'[k.client], k.id, NoteField(k.text)) = adminData'[k.client]
             /\ (StoredOrder(orders, k.id).note = [present |-> TRUE, text |-> k.text])
                  => orders' = orders
    ]_vars

\* C16 witness: a toggle and a note update are in flight that each repeat a
\* mutation the store already holds the result of.
C16_Witness ==
  /\ \E k \in calls :
       /\ k.kind = "toggle"
       /\ StoredOrder(orders, k.id).prizeSent = ~k.flag
       /\ StoredOrder(orders, k.id).prizeSent
  /\ \E k \in calls :
       /\ k.kind = "note"
       /\ StoredOrder(orders, k.id).note = [present |-> TRUE, text |-> k.text]

\* o and n are the same document but for the field prizeSent.
SameButSent(o, n) == n = [o EXCEPT !.prizeSent = n.prizeSent]

\* o and n are the same document but for the field note.
SameButNote(o, n) == n = [o EXCEPT !.note = n.note]

\* C17: a successful redeem changes nothing in the store but the prizeSent
\* flag of its order, and a successful note update nothing but the note of
\* its order: every other field of that order and every other order stay
\* as they are, so a redeem and a note update of one order that are in
\* flight together both take effect, whichever is served first.
C17_OneFieldEach ==
  [][ \A k \in calls :
        /\ ToggleDone(k) =>
             /\ Cardinality(orders') = Cardinality(orders)
             /\ \A o \in orders :
                  IF o.id = k.id
                  THEN \E n \in orders' : SameButSent(o, n) /\ n.prizeSent = ~k.flag
                  ELSE o \in orders'
        /\ NoteDone(k) =>
             /\ Cardinality(orders') = Cardinality(orders)
             /\ \A o \in orders :
                  IF o.id = k.id
                  THEN \E n \in orders' : SameButNote(o, n) /\ n.note.text = k.text
                  ELSE o \in orders'
    ]_vars

\* C17 witness: a redeem of an order has been served while a note update of
\* the same order is in flight, and the order carries the redeem.
C17_Witness ==
  \E k \in calls :
    /\ k.kind = "note"
    /\ adminLast[k.client] = [kind |-> "toggle", id |-> k.id, ok |-> TRUE]
    /\ StoredOrder(orders, k.id).prizeSent
    /\ ~StoredOrder(orders, k.id).note.present

\* The step ends the fetch k with the rows made of its snapshot.
FetchedOk(k) ==
  /\ k \in calls /\ k \notin calls' /\ k.kind = "fetch" /\ k.stage = "read"
  /\ adminLast'[k.client] = [kind |-> "fetch", id |-> 0, ok |-> TRUE]

\* Timestamp a is before timestamp b.
Earlier(a, b) ==
  \/ a.seconds < b.seconds
  \/ a.seconds = b.seconds /\ a.nanoseconds < b.nanoseconds

Listed(rows) == { rows[i] : i \in 1..Len(rows) }

\* C18: the list a completed fetch returns holds exactly the orders of its
\* snapshot with isGrandEligible = true (grand tab, whatever the prize
\* kind), or exactly those whose prize kind is win (instant tab, whatever
\* the eligibility), and in it every order comes before every order with
\* an earlier creation timestamp.
C18_ListsFilteredNewestFirst ==
  [][ \A k \in calls :
        FetchedOk(k) =>
          LET rows == adminData'[k.client]
          IN  /\ Listed(rows) =
                   { d \in Listed(k.snap) :
                       IF k.tab = "grand" THEN d.isGrandEligible
                       ELSE d.scratchPrizeType = "win" }
              /\ \A i, j \in 1..Len(rows) :
                   i < j => ~Earlier(rows[i].timestamp, rows[j].timestamp)
    ]_vars

\* The stats document holds no count.
NoCounts ==
  ~stats.exists \/ \A id \in DOMAIN stats.data : stats.data[id] = 0

\* C20: when clearAllData has ended successfully, the stats document holds
\* no count: every per-prize count is absent or zero, whatever it was.
C20_ClearResetsCounts ==
  \A c \in Clients :
    adminLast[c] = [kind |-> "clear", id |-> 0, ok |-> TRUE] => NoCounts

\* The step serves the getDocs of the fetch k.
FetchServing(k) ==
  /\ k \in calls /\ k \notin calls' /\ k.kind = "fetch" /\ k.stage = "sent"
  /\ \E r \in calls' : r.kind = "fetch" /\ r.stage = "read" /\ r \notin calls

NoteOfId(os, id) == StoredOrder(os, id).note

\* C19: a successful update of the note of an order to a text stores that
\* text, and no step but a successful note update of that order changes
\* its stored note; a fetch issued afterwards reads the orders as the
\* store holds them when it is served, and the rows it returns carry the
\* notes it read: with no later note update of the order, every row a
\* fresh fetch of either tab returns for the order shows that text.
C19_NoteRoundTrip ==
  [][ /\ \A k \in calls :
           /\ NoteDone(k) => NoteOfId(orders', k.id) = [present |-> TRUE, text |-> k.text]
           /\ FetchServing(k) =>
                \E r \in calls' \ calls :
                  /\ Listed(r.snap) = orders
                  /\ Len(r.snap) = Cardinality(orders)
           /\ FetchedOk(k) =>
                /\ Listed(adminData'[k.client]) \subseteq Listed(k.snap)
                /\ \A d \in Listed(k.snap) :
                     TabFilter(d, k.tab) => d \in Listed(adminData'[k.client])
      /\ \A o \in orders :
           (\E n \in orders' : n.id = o.id /\ n.note # o.note)
             => \E k \in calls : NoteDone(k) /\ k.id = o.id
    ]_vars

\* C19 witness: the note of an order was set to V, and a fetch served and
\* ended after that lists the order with the note V.
C19_Witness ==
  \E c \in Clients :
    /\ calls = {}
    /\ adminLast[c] = [kind |-> "fetch", id |-> 0, ok |-> TRUE]
    /\ \E i \in 1..Len(adminData[c]) :
         /\ adminData[c][i].note = [present |-> TRUE, text |-> <<"V">>]
         /\ NoteOfId(orders, adminData[c][i].id) = adminData[c][i].note

\* The step ends the clearAllData k with its success alert.
ClearedOk(k) ==
  /\ k \in calls /\ k.kind = "clear" /\ k.stage = "read"
  /\ calls' = calls \ {k}
  /\ adminLast'[k.client] = [kind |-> "clear", id |-> 0, ok |-> TRUE]

\* C21: when clearAllData ends successfully, every Order of the snapshot it
\* read has been deleted and the admin's local list is empty; and when no
\* registration ran while it ran, the orders collection holds no Order.
C21_ClearEmptiesStore ==
  [][ \A k \in calls :
        ClearedOk(k) =>
          /\ \A d \in Listed(k.snap) : ~\E o \in orders' : o.id = d.id
          /\ adminData'[k.client] = <<>>
          /\ orders' = {}
    ]_vars

\* C21 witness: a clearAllData that read two Orders has ended successfully
\* (the snapshot is gone with the call: the ids the store has given out
\* tell) and the admin's list, filled by the fetch before it, is empty.
C21_Witness ==
  \E c \in Clients :
    /\ adminLast[c] = [kind |-> "clear", id |-> 0, ok |-> TRUE]
    /\ nextId = MaxAdminOrders + 1
    /\ orders = {}
    /\ adminData[c] = <<>>
    /\ calls = {}

\* The step serves the deleteDoc of document id that the clearAllData k issued.
Deleting(k, id) ==
  /\ k \in calls /\ k \notin calls'
  /\ k.kind = "clear" /\ k.stage \in {"read", "failed"}
  /\ id \in k.todo

\* The step is a clearAllData of browser c that a declined prompt ends.
Declining(c) ==
  /\ adminLast'[c].kind \in {"declined_first", "declined_second"}
  /\ adminLast'[c] # adminLast[c]

\* C22: a document leaves the orders collection only in a step that serves
\* a deleteDoc of clearAllData for it (no registration, redeem, note update
\* or listing removes one); a clearAllData that a declined prompt ends
\* leaves the store, the local list, the loading flag and the store calls
\* as they are; and a store call of clearAllData comes into being only in
\* a step of the admin view in which no prompt is declined, its reads and
\* deletes only from that call.
C22_OnlyConfirmedClearDeletes ==
  [][ /\ \A o \in orders :
           (~\E n \in orders' : n.id = o.id) => \E k \in calls : Deleting(k, o.id)
      /\ \A c \in Clients :
           Declining(c) =>
             /\ orders' = orders /\ stats' = stats
             /\ adminData' = adminData /\ loading' = loading
             /\ calls' = calls
      /\ \A r \in calls' \ calls :
           r.kind = "clear" =>
             IF r.stage = "sent"
             THEN /\ view[r.client] = "admin"
                  /\ ~Declining(r.client)
                  /\ orders' = orders
             ELSE \E k \in calls : k.kind = "clear" /\ k.client = r.client
    ]_vars

\* C22 witness: a clearAllData has deleted an Order of the store while
\* another Order is there, and the admin has since declined the second
\* prompt of a further clearAllData.
C22_Witness ==
  \E c \in Clients :
    /\ adminLast[c].kind = "declined_second"
    /\ orders # {}
    /\ Cardinality(orders) < nextId - 1

\* The step ends the updateDoc k of a togglePrizeSent or an updateNote.
EditEnds(k) ==
  /\ k \in calls /\ k \notin calls' /\ k.kind \in {"toggle", "note"}

\* C23: an updateDoc of togglePrizeSent or updateNote ends either with its
\* success or with a failure that is surfaced (an alert), and one for a
\* document the store no longer holds fails; when it fails, the store and
\* the admin's local list are as before, and no store call is issued in
\* its place.
C23_FailedEditChangesNothing ==
  [][ \A k \in calls :
        EditEnds(k) =>
          /\ adminLast'[k.client].kind = k.kind /\ adminLast'[k.client].id = k.id
          /\ (~\E o \in orders : o.id = k.id) => ~adminLast'[k.client].ok
          /\ ~adminLast'[k.client].ok =>
               /\ orders' = orders
               /\ adminData' = adminData
               /\ calls' = calls \ {k}
    ]_vars

\* C23 witness: a redeem of an Order has failed; the store holds the Order
\* unredeemed and the admin's list shows it unredeemed, and no store call
\* is in flight.
C23_Witness ==
  \E c \in Clients :
    /\ adminLast[c].kind = "toggle" /\ ~adminLast[c].ok
    /\ calls = {}
    /\ \E o \in orders : o.id = adminLast[c].id /\ ~o.prizeSent
    /\ \E i \in 1..Len(adminData[c]) :
         adminData[c][i].id = adminLast[c].id /\ ~adminData[c][i].prizeSent

\* No operation of browser c is between its start and its end.
NothingRunning(c) ==
  /\ pc[c] = "idle"
  /\ \A kind \in {"fetch", "toggle", "note", "clear"} : ~Awaiting(c, kind)

\* C24: with a store that answers or fails every call, a registration that
\* has started ends (with the order written, a duplicate, or an error), and
\* so do a fetch, a redeem, a note update and a clearAllData of the admin;
\* and whenever no operation of a browser is running, its loading flag is
\* false.
C24_EveryOperationEnds ==
  /\ \A c \in {"c1"} :
       /\ (pc[c] # "idle") ~> (pc[c] = "idle")
       /\ \A kind \in {"fetch", "toggle", "note", "clear"} :
            Awaiting(c, kind) ~> ~Awaiting(c, kind)
  /\ [](\A c \in Clients : NothingRunning(c) => ~loading[c])

\* C24 witness: a registration has ended with a store error and a
\* clearAllData with a failure, nothing is running in the browser, and its
\* loading flag is false.
C24_Witness ==
  \E c \in Clients :
    /\ outcome[c] \in {"check_failed", "write_failed"}
    /\ adminLast[c] = [kind |-> "clear", id |-> 0, ok |-> FALSE]
    /\ NothingRunning(c)
    /\ ~loading[c]

\* The view of browser c becomes v in the step.
Enters(c, v) == view'[c] = v /\ view[c] # v

\* C25: the view becomes scratch only in the step that persists the Order
\* of the running submission and records its id, serial and prize; it
\* becomes result only from the scratch view, by the notification of the
\* card that view shows, which is revealed; and the result view is shown
\* only with the id of a persisted Order.
C25_LifecycleOrder ==
  [][ \A c \in Clients :
        /\ Enters(c, "scratch") =>
             /\ pc[c] = "write" /\ outcome'[c] = "ok"
             /\ \E o \in orders' \ orders :
                  /\ o.id = orderId'[c]
                  /\ o.scratchPrizeId = scratchResult'[c]
                  /\ o.grandDrawSerial = grandDrawSerial'[c]
        /\ Enters(c, "result") =>
             /\ completes'[c] = completes[c] + 1
             /\ view[c] = "scratch"
             /\ card[c].mounted /\ card[c].isRevealed
        /\ view'[c] = "result" => \E o \in orders' : o.id = orderId'[c]
    ]_vars

\* C26: the view becomes scratch only from the home view: a registration
\* that ends after the user has gone to the admin login or the admin view
\* leaves the view as it is.
C26_ScratchOnlyFromHome ==
  [][ \A c \in Clients : Enters(c, "scratch") => view[c] = "home" ]_vars

\* C27: in every browser the loading flag is true for as long as a
\* handleSubmit is between its start and its end, also when a fetch or a
\* clearAllData of the admin starts or ends meanwhile; so the submit button
\* (home view, disabled while loading) cannot start a second handleSubmit
\* while one is running.
C27_OneRegistrationInFlight ==
  \A c \in Clients : pc[c] # "idle" => loading[c]

\* C28: whenever no fetch of a browser is in flight, every row of its list
\* passes the filter of the tab that is selected (grand: isGrandEligible,
\* instant: a win), also after two fetches of different tabs were in flight
\* together and ended in either order.
C28_ListMatchesSelectedTab ==
  \A c \in Clients :
    ~Awaiting(c, "fetch") =>
      \A i \in 1..Len(adminData[c]) :
        IF adminTab[c] = "grand" THEN adminData[c][i].isGrandEligible
        ELSE adminData[c][i].scratchPrizeType = "win"

\* C29: every successful redeem inverts the prizeSent flag the store holds
\* for the order when the write is served, and leaves the row of the order
\* in the list of the admin who redeemed at the stored value; also when
\* two admin sessions that hold the same listing redeem the same order one
\* after the other.
C29_ToggleInvertsStoredFlag ==
  [][ \A k \in calls :
        ToggleDone(k) =>
          /\ StoredOrder(orders', k.id).prizeSent = ~StoredOrder(orders, k.id).prizeSent
          /\ \A i \in 1..Len(adminData'[k.client]) :
               adminData'[k.client][i].id = k.id =>
                 adminData'[k.client][i].prizeSent = StoredOrder(orders', k.id).prizeSent
    ]_vars

\* C29 as the code has it: every successful redeem leaves the stored
\* prizeSent flag of the order at the negation of the status that the row
\* showed when the admin pressed its button, whatever the store held when
\* the write was served, and leaves the row of the order in that admin's
\* list at the stored value; when a second session that holds the same
\* listing redeems the same order after the first, its write leaves the
\* store as the first left it.
C29_ToggleSetsNegationOfShown ==
  [][ \A k \in calls :
        ToggleDone(k) =>
          /\ StoredOrder(orders', k.id).prizeSent = ~k.flag
          /\ \A i \in 1..Len(adminData'[k.client]) :
               adminData'[k.client][i].id = k.id =>
                 adminData'[k.client][i].prizeSent = StoredOrder(orders', k.id).prizeSent
          /\ (\E c \in Clients \ {k.client} :
                /\ adminLast[c] = [kind |-> "toggle", id |-> k.id, ok |-> TRUE]
                /\ StoredOrder(orders, k.id).prizeSent = ~k.flag)
               => orders' = orders
    ]_vars

\* C29 witness: the redeem of one session has been served and the store
\* holds the order as sent, while the redeem of the other session, whose
\* list still shows the order as not sent, is in flight.
C29_Witness ==
  \E k \in calls :
    /\ k.kind = "toggle" /\ ~k.flag
    /\ StoredOrder(orders, k.id).prizeSent
    /\ \E c \in Clients \ {k.client} :
         adminLast[c] = [kind |-> "toggle", id |-> k.id, ok |-> TRUE]
    /\ \E i \in 1..Len(adminData[k.client]) :
         adminData[k.client][i].id = k.id /\ ~adminData[k.client][i].prizeSent

\* The step ends the clearAllData k with its failure alert.
ClearFailed(k) ==
  /\ k \in calls /\ k \notin calls'
  /\ k.kind = "clear" /\ k.stage \in {"sent", "read"}
  /\ \A r \in calls' \ calls : r.stage = "failed"
  /\ adminLast'[k.client] = [kind |-> "clear", id |-> 0, ok |-> FALSE]

\* C30: a clearAllData that ends in failure has removed no Order: every
\* document of the snapshot it read is still stored when it fails, and
\* none is removed afterwards on its behalf; one that ends in success has
\* removed every document of its snapshot.
C30_ClearAllOrNothing ==
  [][ \A k \in calls :
        /\ ClearFailed(k) =>
             \A d \in Listed(k.snap) : \E o \in orders' : o.id = d.id
        /\ (k.kind = "clear" /\ k.stage = "failed") =>
             \A id \in k.todo : Deleting(k, id) => orders' = orders
        /\ ClearedOk(k) =>
             \A d \in Listed(k.snap) : ~\E o \in orders' : o.id = d.id
    ]_vars

====
